---------------------------- MODULE Spec2Model ----------------------------
(***************************************************************************)
(* Model of satosa/micro_services/idp_metadata_attribute_store.py:         *)
(* the IdpMetadataAttributeStore response microservice.                    *)
(*                                                                         *)
(* Python dictionaries are functions with a domain of strings, lists are   *)
(* sequences, `k in d` is k \in DOMAIN d, d.update(e) is e @@ d.  A raised *)
(* exception is carried as the name of its class in the field exc of the   *)
(* local state of process; "" means that no exception is pending.          *)
(***************************************************************************)
EXTENDS Naturals, Sequences, FiniteSets, TLC

VARIABLES
    pc,           \* "new", "failed" (__init__ raised), "idle", "returned"
    rawConfig,    \* the config argument handed to __init__
    config,       \* self.config
    request,      \* the arguments of the current process call
    using,        \* the configuration process resolved for the request
    attributes,   \* data.attributes when process ended
    assigned,     \* the facts whose assignment statement process executed
    consulted,    \* whether metadata_store[idp_entity_id] was evaluated
    forwarded,    \* whether super().process(context, data) was called
    raised,       \* the exception that escaped process, "" if none
    elements,     \* argument of _first_lang_element_text
    lang,         \* argument of _first_lang_element_text
    text,         \* result of _first_lang_element_text
    selected      \* whether _first_lang_element_text has returned

vars == <<pc, rawConfig, config, request, using, attributes, assigned,
          consulted, forwarded, raised, elements, lang, text, selected>>

serviceVars == <<pc, rawConfig, config, request, using, attributes, assigned,
                 consulted, forwarded, raised>>

selectorVars == <<elements, lang, text, selected>>

-----------------------------------------------------------------------------
(* Bounds *)

\* longest candidate list handed to the selector
MaxLen == 3

\* most extension elements preceding the last one of an SSO descriptor
MaxOther == 1

-----------------------------------------------------------------------------
(* Python values *)

EmptyDict == [k \in {} |-> TRUE]

\* a key that is absent from a dictionary under construction
Absent == "<absent>"

Item(k, v) == IF v = Absent THEN EmptyDict ELSE k :> v

\* a configuration value that is a dict, and one that is not
PyDict(items) == [isdict |-> TRUE, items |-> items]

PyStr == [isdict |-> FALSE, items |-> EmptyDict]

\* isinstance(v, dict)
IsDict(v) == v.isdict

-----------------------------------------------------------------------------
(* _first_lang_element_text *)

LocalizedNameClass == "urn:oasis:names:tc:SAML:2.0:metadata&LocalizedName"

UIInfoClass == "urn:oasis:names:tc:SAML:metadata:ui&UIInfo"

OtherClass == "urn:oasis:names:tc:SAML:metadata:ui&DiscoHints"

\* an element of a candidate list: __class__, and lang and text when present
Element(l, t) == ("__class__" :> LocalizedNameClass) @@ Item("lang", l) @@ Item("text", t)

\* index of the first element of elems, from i on, that has all of keys; 0 if none
RECURSIVE FirstWith(_, _, _)
FirstWith(elems, keys, i) ==
    IF i > Len(elems) THEN 0
    ELSE IF keys \subseteq DOMAIN elems[i] THEN i
    ELSE FirstWith(elems, keys, i + 1)

\* the text of the first element that has the keys l and text, else of the first
\* element that has the key text, else the empty string
_first_lang_element_text(elems, l) ==
    LET m == FirstWith(elems, {l, "text"}, 1)
        f == FirstWith(elems, {"text"}, 1)
    IN  IF m # 0 THEN elems[m]["text"]
        ELSE IF f # 0 THEN elems[f]["text"]
        ELSE ""

-----------------------------------------------------------------------------
(* __init__ *)

config_defaults == "ignore" :> FALSE

\* __init__ without the isinstance check of lines 96-99
InitErrorUnchecked(cfg) ==
    IF "default" \in DOMAIN cfg /\ "" \in DOMAIN cfg
    THEN "Use either 'default' or \"\" in config but not both"
    ELSE IF "default" \notin DOMAIN cfg /\ "" \notin DOMAIN cfg
    THEN "No default configuration is present"
    ELSE ""

\* config after `config['default'] = config.pop("")`
PopEmptyKey(cfg) ==
    IF "" \in DOMAIN cfg
    THEN [k \in (DOMAIN cfg \ {""}) \cup {"default"} |->
              IF k = "default" THEN cfg[""] ELSE cfg[k]]
    ELSE cfg

\* the message of the error __init__ raises for cfg, "" if it raises none
InitError(cfg) ==
    IF "default" \in DOMAIN cfg /\ "" \in DOMAIN cfg
    THEN "Use either 'default' or \"\" in config but not both"
    ELSE IF "default" \notin DOMAIN PopEmptyKey(cfg)
    THEN "No default configuration is present"
    ELSE IF \E idp \in DOMAIN PopEmptyKey(cfg) : ~IsDict(PopEmptyKey(cfg)[idp])
    THEN "Configuration value for {} must be a dictionary"
    ELSE ""

\* a per-fact deep merge in place of dict.update
IdpConfigDeep(self_config, block) ==
    LET base == IF "default" \in DOMAIN self_config
                THEN self_config["default"] @@ config_defaults
                ELSE config_defaults
    IN  [k \in DOMAIN block \cup DOMAIN base |->
            IF k \in DOMAIN block /\ k \in DOMAIN base /\ k # "ignore"
            THEN block[k] @@ base[k]
            ELSE IF k \in DOMAIN block THEN block[k] ELSE base[k]]

\* idp_config: module defaults, then self.config['default'], then the block
IdpConfig(self_config, block) ==
    LET base == IF "default" \in DOMAIN self_config
                THEN self_config["default"] @@ config_defaults
                ELSE config_defaults
    IN  block @@ base

\* self.config when the loop over idp_list has ended
BuildConfig(cfg) ==
    LET c == PopEmptyKey(cfg)
        first == "default" :> IdpConfig(EmptyDict, c["default"].items)
    IN  [idp \in DOMAIN c |->
            IF idp = "default" THEN first["default"]
            ELSE IdpConfig(first, c[idp].items)]

-----------------------------------------------------------------------------
(* process *)

FactKeys == {"entity_id", "display_name", "organization_name", "organization_display_name"}

MetadataFacts == FactKeys \ {"entity_id"}

\* the local state of one process call
Local(attrs) == [attributes |-> attrs, assigned |-> {}, consulted |-> FALSE, exc |-> ""]

Raise(st, e) == [st EXCEPT !.exc = e]

\* `except KeyError` in place of `except Exception`
CatchKeyError(st) == IF st.exc = "KeyError" THEN [st EXCEPT !.exc = ""] ELSE st

\* `except Exception as err`: log and go on
Catch(st) == [st EXCEPT !.exc = ""]

\* data.to_dict()['auth_info']['issuer']: the issuer, or the KeyError
Issuer(data) ==
    IF "auth_info" \notin DOMAIN data THEN [exc |-> "KeyError", idp |-> ""]
    ELSE IF "issuer" \notin DOMAIN data["auth_info"] THEN [exc |-> "KeyError", idp |-> ""]
    ELSE [exc |-> "", idp |-> data["auth_info"]["issuer"]]

\* the per-IdP entry is never used
ResolveConfigDefaultOnly(self_config, idp) == self_config["default"]

\* the configuration for the IdP
ResolveConfig(self_config, idp) ==
    IF idp \in DOMAIN self_config THEN self_config[idp] ELSE self_config["default"]

\* the ignore key is not honoured
IgnoredNever(cfg) == FALSE

\* config['ignore']
Ignored(cfg) == cfg["ignore"]

\* data.attributes[config[fact]['internal_attribute_name']] = value
SetAttribute(cfg, fact, value, st) ==
    IF "internal_attribute_name" \notin DOMAIN cfg[fact] THEN Raise(st, "KeyError")
    ELSE [st EXCEPT !.attributes = (cfg[fact]["internal_attribute_name"] :> value) @@ @,
                    !.assigned = @ \cup {fact}]

\* set the entityID attribute if so configured
SetEntityId(cfg, idp, st) ==
    IF "entity_id" \in DOMAIN cfg THEN SetAttribute(cfg, "entity_id", idp, st) ELSE st

\* config[fact].get('lang', 'en')
Lang(cfg, fact) == IF "lang" \in DOMAIN cfg[fact] THEN cfg[fact]["lang"] ELSE "en"

\* the assignment without its `if value:` guard
SetIfTextUnguarded(cfg, fact, value, st) == SetAttribute(cfg, fact, value, st)

\* `if value:` followed by the assignment
SetIfText(cfg, fact, value, st) ==
    IF value # "" THEN SetAttribute(cfg, fact, value, st) ELSE st

\* the loop over the extension elements: exc is the exception it raises, bound
\* tells whether display_name was assigned, value is display_name
RECURSIVE ScanExtensions(_, _, _)
ScanExtensions(extensions, l, i) ==
    IF i > Len(extensions) THEN [exc |-> "", bound |-> FALSE, value |-> ""]
    ELSE IF "__class__" \notin DOMAIN extensions[i]
    THEN [exc |-> "KeyError", bound |-> FALSE, value |-> ""]
    ELSE IF extensions[i]["__class__"] = UIInfoClass
    THEN IF "display_name" \notin DOMAIN extensions[i]
         THEN [exc |-> "KeyError", bound |-> FALSE, value |-> ""]
         ELSE [exc |-> "", bound |-> TRUE,
               value |-> _first_lang_element_text(extensions[i]["display_name"], l)]
    ELSE ScanExtensions(extensions, l, i + 1)

\* the body of the try statement for display_name
DisplayNameTry(cfg, metadata, st) ==
    IF "idpsso_descriptor" \notin DOMAIN metadata THEN Raise(st, "KeyError")
    ELSE IF Len(metadata["idpsso_descriptor"]) = 0 THEN Raise(st, "IndexError")
    ELSE IF "extensions" \notin DOMAIN metadata["idpsso_descriptor"][1]
    THEN Raise(st, "KeyError")
    ELSE IF "extension_elements" \notin DOMAIN metadata["idpsso_descriptor"][1]["extensions"]
    THEN Raise(st, "KeyError")
    ELSE LET scan == ScanExtensions(
                         metadata["idpsso_descriptor"][1]["extensions"]["extension_elements"],
                         Lang(cfg, "display_name"), 1)
         IN  IF scan.exc # "" THEN Raise(st, scan.exc)
             ELSE IF ~scan.bound THEN Raise(st, "UnboundLocalError")
             ELSE SetIfText(cfg, "display_name", scan.value, st)

\* the body of the try statement for organization_display_name and for
\* organization_name
OrganizationTry(cfg, fact, metadata, st) ==
    IF "organization" \notin DOMAIN metadata THEN Raise(st, "KeyError")
    ELSE IF fact \notin DOMAIN metadata["organization"] THEN Raise(st, "KeyError")
    ELSE SetIfText(cfg, fact,
                   _first_lang_element_text(metadata["organization"][fact], Lang(cfg, fact)),
                   st)

\* one try statement around the three facts
MetadataFactsOneTry(cfg, metadata, st) ==
    LET s1 == IF "display_name" \in DOMAIN cfg
              THEN DisplayNameTry(cfg, metadata, st) ELSE st
        s2 == IF s1.exc = "" /\ "organization_display_name" \in DOMAIN cfg
              THEN OrganizationTry(cfg, "organization_display_name", metadata, s1) ELSE s1
        s3 == IF s2.exc = "" /\ "organization_name" \in DOMAIN cfg
              THEN OrganizationTry(cfg, "organization_name", metadata, s2) ELSE s2
    IN  Catch(s3)

\* display_name, organization_display_name, organization_name, each in its own
\* try statement
MetadataFactsSteps(cfg, metadata, st) ==
    LET s1 == IF "display_name" \in DOMAIN cfg
              THEN Catch(DisplayNameTry(cfg, metadata, st)) ELSE st
        s2 == IF s1.exc = "" /\ "organization_display_name" \in DOMAIN cfg
              THEN Catch(OrganizationTry(cfg, "organization_display_name", metadata, s1))
              ELSE s1
        s3 == IF s2.exc = "" /\ "organization_name" \in DOMAIN cfg
              THEN Catch(OrganizationTry(cfg, "organization_name", metadata, s2))
              ELSE s2
    IN  s3

\* the failed lookup is not caught
FromMetadataUncaught(cfg, idp, metadata_store, st) ==
    LET s1 == [st EXCEPT !.consulted = TRUE]
    IN  IF idp \notin DOMAIN metadata_store THEN Raise(s1, "KeyError")
        ELSE MetadataFactsSteps(cfg, metadata_store[idp], s1)

\* metadata_store[idp_entity_id] and the facts taken from it
FromMetadata(cfg, idp, metadata_store, st) ==
    LET s1 == [st EXCEPT !.consulted = TRUE]
    IN  IF idp \notin DOMAIN metadata_store THEN Catch(Raise(s1, "KeyError"))
        ELSE MetadataFactsSteps(cfg, metadata_store[idp], s1)

\* process from the resolved configuration on
Enrich(cfg, idp, req) ==
    IF Ignored(cfg) THEN Local(req.attributes)
    ELSE LET s1 == SetEntityId(cfg, idp, Local(req.attributes))
         IN  IF s1.exc # "" THEN s1
             ELSE FromMetadata(cfg, idp, req.metadata_store, s1)

\* what process leaves behind: the configuration it used, the attribute bag,
\* and how it ended
process(self_config, req) ==
    LET iss == Issuer(req.data)
        cfg == ResolveConfig(self_config, iss.idp)
        st  == Enrich(cfg, iss.idp, req)
    IN  IF iss.exc = "KeyError"
        THEN [using |-> [set |-> FALSE, config |-> EmptyDict],
              attributes |-> req.attributes, assigned |-> {}, consulted |-> FALSE,
              forwarded |-> TRUE, raised |-> ""]
        ELSE [using |-> [set |-> TRUE, config |-> cfg],
              attributes |-> st.attributes, assigned |-> st.assigned,
              consulted |-> st.consulted,
              forwarded |-> (st.exc = ""), raised |-> st.exc]

-----------------------------------------------------------------------------
(* Inputs *)

IdpA == "https://login.myorg.edu/idp/shibboleth"

IdpB == "https://login.other.org.edu/idp/shibboleth"

EntityIds == {IdpA, IdpB}

\* the fact configurations of the typical configuration of the module docstring
Typical(fact) ==
    CASE fact = "entity_id" -> [internal_attribute_name |-> "idpentityid"]
      [] fact = "display_name" -> [internal_attribute_name |-> "idpdisplayname", lang |-> "en"]
      [] fact = "organization_name" -> [internal_attribute_name |-> "idporgname", lang |-> "en"]
      [] fact = "organization_display_name" ->
             [internal_attribute_name |-> "idporgdisplayname", lang |-> "en"]

\* the fact configurations of a per-IdP block
Other(fact) ==
    CASE fact = "entity_id" -> [internal_attribute_name |-> "otherid"]
      [] fact = "display_name" -> [internal_attribute_name |-> "othername", lang |-> "jp"]
      [] fact = "organization_name" -> [internal_attribute_name |-> "otherorgname"]
      [] fact = "organization_display_name" ->
             [internal_attribute_name |-> "otherorgdisplayname", lang |-> "jp"]

TypicalBlock == [fact \in FactKeys |-> Typical(fact)]

Blocks ==
    { EmptyDict,
      "ignore" :> TRUE,
      TypicalBlock,
      ("ignore" :> TRUE) @@ TypicalBlock,
      "display_name" :> Other("display_name"),
      ("ignore" :> FALSE) @@ ("entity_id" :> Other("entity_id"))
          @@ ("organization_name" :> Other("organization_name")),
      ("organization_display_name" :> Other("organization_display_name"))
          @@ ("organization_name" :> Typical("organization_name")),
      [fact \in MetadataFacts |-> Typical(fact)] }

ConfigKeys == {"default", "", IdpA}

ConfigValues == {PyStr} \cup {PyDict(b) : b \in Blocks}

RawConfigs == UNION {[K -> ConfigValues] : K \in SUBSET ConfigKeys}

DataDicts ==
    {"auth_info" :> EmptyDict} \cup {"auth_info" :> ("issuer" :> i) : i \in EntityIds}

AttributeBags ==
    { "mail" :> "user@example.org",
      ("mail" :> "user@example.org") @@ ("idpentityid" :> "old")
          @@ ("idpdisplayname" :> "old") @@ ("othername" :> "old")
          @@ ("idporgname" :> "old") @@ ("otherorgdisplayname" :> "old") }

Names == <<Element("en", "Example IdP"), Element("jp", "Rei IdP")>>

NoText == <<Element("en", Absent)>>

CandidateLists == { <<>>, Names, NoText, <<Element("en", Absent), Element(Absent, "C")>> }

CandidatePairs == { <<Names, Names>>, <<Names, NoText>>, <<NoText, Names>>, <<<<>>, <<>>>> }

\* n extension elements of another class
RECURSIVE Others(_)
Others(n) == IF n = 0 THEN <<>> ELSE <<"__class__" :> OtherClass>> \o Others(n - 1)

ExtensionLists ==
    { Others(n) \o last :
        n \in 0..MaxOther,
        last \in { <<>>, <<"__class__" :> UIInfoClass>>, <<"display_name" :> Names>>,
                   <<"display_name" :> Names,
                     ("__class__" :> UIInfoClass) @@ ("display_name" :> Names)>> }
                 \cup { <<("__class__" :> UIInfoClass) @@ ("display_name" :> c)>> :
                        c \in CandidateLists } }

DescriptorLists ==
    { <<>>, <<EmptyDict>>, <<"extensions" :> EmptyDict>> }
    \cup { <<"extensions" :> ("extension_elements" :> x)>> : x \in ExtensionLists }

Organizations ==
    { EmptyDict }
    \cup { "organization_display_name" :> c : c \in CandidateLists }
    \cup { "organization_name" :> c : c \in CandidateLists }
    \cup { ("organization_display_name" :> p[1]) @@ ("organization_name" :> p[2]) :
           p \in CandidatePairs }

MetadataRecords ==
    { d @@ o :
        d \in {EmptyDict} \cup {"idpsso_descriptor" :> x : x \in DescriptorLists},
        o \in {EmptyDict} \cup {"organization" :> x : x \in Organizations} }

MetadataStores == {EmptyDict} \cup {[i \in EntityIds |-> m] : m \in MetadataRecords}

Requests ==
    [data : DataDicts, attributes : AttributeBags, metadata_store : MetadataStores]

NoRequest == [data |-> EmptyDict, attributes |-> EmptyDict, metadata_store |-> EmptyDict]

NotUsing == [set |-> FALSE, config |-> EmptyDict]

SelectorElements == {Element(l, t) : l \in {Absent, "en", "ja"}, t \in {Absent, "A", "B"}}

SelectorLists == UNION {[1..n -> SelectorElements] : n \in 0..MaxLen}

PreferredLangs == {"en", "ja", "lang", "text"}

-----------------------------------------------------------------------------
(* The service *)

NoCall ==
    /\ request = NoRequest
    /\ using = NotUsing
    /\ attributes = EmptyDict
    /\ assigned = {}
    /\ consulted = FALSE
    /\ forwarded = FALSE
    /\ raised = ""

NoSelect ==
    /\ elements = <<>>
    /\ lang = "en"
    /\ text = ""
    /\ selected = FALSE

Init ==
    /\ pc = "new"
    /\ rawConfig = EmptyDict
    /\ config = EmptyDict
    /\ NoCall
    /\ NoSelect

\* IdpMetadataAttributeStore(config)
Construct ==
    /\ pc = "new"
    /\ \E cfg \in RawConfigs :
        /\ rawConfig' = cfg
        /\ IF InitError(cfg) # ""
           THEN pc' = "failed" /\ config' = EmptyDict
           ELSE pc' = "idle" /\ config' = BuildConfig(cfg)
    /\ UNCHANGED <<request, using, attributes, assigned, consulted, forwarded, raised>>
    /\ UNCHANGED selectorVars

\* process(context, data)
Process ==
    /\ pc = "idle"
    /\ pc' = "returned"
    /\ \E req \in Requests :
        /\ request' = req
        /\ LET r == process(config, req)
           IN  /\ using' = r.using
               /\ attributes' = r.attributes
               /\ assigned' = r.assigned
               /\ consulted' = r.consulted
               /\ forwarded' = r.forwarded
               /\ raised' = r.raised
    /\ UNCHANGED <<rawConfig, config>>
    /\ UNCHANGED selectorVars

\* the call has returned: context and data are dropped, self.config stays
EndRequest ==
    /\ pc = "returned"
    /\ pc' = "idle"
    /\ request' = NoRequest
    /\ using' = NotUsing
    /\ attributes' = EmptyDict
    /\ assigned' = {}
    /\ consulted' = FALSE
    /\ forwarded' = FALSE
    /\ raised' = ""
    /\ UNCHANGED <<rawConfig, config>>
    /\ UNCHANGED selectorVars

Next ==
    \/ Construct
    \/ Process
    \/ EndRequest

Spec == Init /\ [][Next]_vars

-----------------------------------------------------------------------------
(* The selector on its own *)

InitSelect ==
    /\ pc = "new"
    /\ rawConfig = EmptyDict
    /\ config = EmptyDict
    /\ NoCall
    /\ elements \in SelectorLists
    /\ lang \in PreferredLangs
    /\ text = ""
    /\ selected = FALSE

\* self._first_lang_element_text(elements, lang)
Select ==
    /\ ~selected
    /\ text' = _first_lang_element_text(elements, lang)
    /\ selected' = TRUE
    /\ UNCHANGED <<elements, lang>>
    /\ UNCHANGED serviceVars

NextSelect == Select

SpecSelect == InitSelect /\ [][NextSelect]_vars

-----------------------------------------------------------------------------
(* Properties of the selector *)

\* the element carries text and its language tag is l
TaggedText(e, l) == "lang" \in DOMAIN e /\ e["lang"] = l /\ "text" \in DOMAIN e

FirstTagged(elems, l) ==
    CHOOSE i \in 1..Len(elems) :
        TaggedText(elems[i], l) /\ \A j \in 1..(i - 1) : ~TaggedText(elems[j], l)

FirstText(elems) ==
    CHOOSE i \in 1..Len(elems) :
        "text" \in DOMAIN elems[i] /\ \A j \in 1..(i - 1) : "text" \notin DOMAIN elems[j]

\* C1: when some element has the preferred language tag and carries text, the
\* selector returns the text of the first such element in the original order.
C1_PreferredLangFirst ==
    (selected /\ \E i \in 1..Len(elements) : TaggedText(elements[i], lang))
        => text = elements[FirstTagged(elements, lang)]["text"]

\* C2: when no element has the preferred language tag together with text, the
\* selector returns the text of the first element that carries text, whatever its
\* tag, and the empty string when no element carries text.
C2_FallbackFirstText ==
    (selected /\ \A i \in 1..Len(elements) : ~TaggedText(elements[i], lang))
        => text = IF \E i \in 1..Len(elements) : "text" \in DOMAIN elements[i]
                  THEN elements[FirstText(elements)]["text"]
                  ELSE ""

-----------------------------------------------------------------------------
(* Properties of the service *)

Initialized == pc \in {"idle", "returned"}

TopKeys == {"ignore"} \cup FactKeys

\* the raw default block, under whichever of the two keys it was given
RawDefault == IF "" \in DOMAIN rawConfig THEN rawConfig[""] ELSE rawConfig["default"]

Overrides == DOMAIN rawConfig \ {"", "default"}

\* C3: for every per-IdP block and every top-level key, a key the block gives has
\* exactly the block's value in the IdP's effective configuration, a key it does
\* not give has the value of the resolved default entry (or is absent as it is
\* there), and ignore is false when neither gives it.
C3_ShallowMerge ==
    Initialized =>
        \A idp \in Overrides : \A k \in TopKeys :
            /\ k \in DOMAIN rawConfig[idp].items
                   => /\ k \in DOMAIN config[idp]
                      /\ config[idp][k] = rawConfig[idp].items[k]
            /\ k \notin DOMAIN rawConfig[idp].items
                   => /\ k \in DOMAIN config[idp] <=> k \in DOMAIN config["default"]
                      /\ k \in DOMAIN config[idp] => config[idp][k] = config["default"][k]
            /\ ("ignore" \notin DOMAIN rawConfig[idp].items
                    /\ "ignore" \notin DOMAIN RawDefault.items)
                   => config[idp]["ignore"] = FALSE

\* a block that gives organization_name without lang over a default that gives it
\* with lang, and that inherits display_name
C3_Witness ==
    /\ pc = "idle"
    /\ IdpA \in Overrides
    /\ "organization_name" \in DOMAIN rawConfig[IdpA].items
    /\ "lang" \notin DOMAIN rawConfig[IdpA].items["organization_name"]
    /\ "organization_name" \in DOMAIN RawDefault.items
    /\ "lang" \in DOMAIN RawDefault.items["organization_name"]
    /\ "lang" \notin DOMAIN config[IdpA]["organization_name"]
    /\ "display_name" \notin DOMAIN rawConfig[IdpA].items
    /\ "display_name" \in DOMAIN config[IdpA]

HasIssuer ==
    /\ "auth_info" \in DOMAIN request.data
    /\ "issuer" \in DOMAIN request.data["auth_info"]

ReqIdp == request.data["auth_info"]["issuer"]

\* C4: the table of an initialized service has a 'default' entry and no
\* empty-string entry; process uses the 'default' entry for an issuer that is not
\* a key of the table and the issuer's own entry otherwise, and does not fail.
C4_DefaultLookup ==
    /\ Initialized => "default" \in DOMAIN config /\ "" \notin DOMAIN config
    /\ (pc = "returned" /\ HasIssuer) =>
          /\ using.set
          /\ ReqIdp \notin DOMAIN config => using.config = config["default"]
          /\ ReqIdp \in DOMAIN config => using.config = config[ReqIdp]
          /\ raised = ""

\* an issuer that is no key of a table that has a per-IdP entry
C4_Witness ==
    /\ pc = "returned"
    /\ HasIssuer
    /\ ReqIdp = IdpB
    /\ IdpA \in DOMAIN config
    /\ config[IdpA] # config["default"]
    /\ using.config = config["default"]

NonMapping == \E k \in DOMAIN rawConfig : ~rawConfig[k].isdict

\* C5: initialization fails, and leaves no service, when the raw configuration
\* has both a 'default' and an empty-string key, has neither, or has a value that
\* is not a mapping; otherwise it succeeds, the table has the raw keys with the
\* empty-string key renamed to 'default'.
C5_ConfigurationError ==
    pc # "new" =>
        /\ pc = "failed" <=>
              \/ "default" \in DOMAIN rawConfig /\ "" \in DOMAIN rawConfig
              \/ "default" \notin DOMAIN rawConfig /\ "" \notin DOMAIN rawConfig
              \/ NonMapping
        /\ pc = "failed" => config = EmptyDict /\ request = NoRequest /\ ~forwarded
        /\ pc # "failed" =>
              /\ DOMAIN config = (DOMAIN rawConfig \ {""}) \cup {"default"}
              /\ \A k \in DOMAIN RawDefault.items :
                     config["default"][k] = RawDefault.items[k]

\* a mapping default with a per-IdP value that is no mapping
C5_Witness ==
    /\ pc = "failed"
    /\ DOMAIN rawConfig = {"default", IdpA}
    /\ rawConfig["default"].isdict
    /\ ~rawConfig[IdpA].isdict

\* the entry of the table for the issuer of the request
Effective == IF ReqIdp \in DOMAIN config THEN config[ReqIdp] ELSE config["default"]

LookupOk == ReqIdp \in DOMAIN request.metadata_store

Metadata == request.metadata_store[ReqIdp]

\* C6: when the issuer's effective configuration has ignore true, process leaves
\* the attribute bag as it was, does not consult the metadata store, and forwards
\* the assertion.
C6_IgnorePassThrough ==
    (pc = "returned" /\ HasIssuer /\ Effective["ignore"]) =>
        /\ attributes = request.attributes
        /\ assigned = {}
        /\ ~consulted
        /\ forwarded
        /\ raised = ""

\* ignore inherited from default by an IdP whose own block configures a fact
C6_Witness ==
    /\ pc = "returned"
    /\ HasIssuer
    /\ ReqIdp = IdpA
    /\ IdpA \in Overrides
    /\ "ignore" \notin DOMAIN rawConfig[IdpA].items
    /\ "display_name" \in DOMAIN rawConfig[IdpA].items
    /\ "entity_id" \in DOMAIN Effective
    /\ Effective["ignore"]
    /\ LookupOk
    /\ attributes = request.attributes

Enriching == pc = "returned" /\ HasIssuer /\ ~Effective["ignore"]

Name(fact) == Effective[fact]["internal_attribute_name"]

\* C7: when the lookup of the issuer's metadata fails and the IdP is not ignored,
\* process sets the entity_id attribute to the issuer if entity_id is configured,
\* assigns no fact taken from the metadata, and forwards the assertion.
C7_LookupFailure ==
    (Enriching /\ ~LookupOk) =>
        /\ consulted
        /\ "entity_id" \in DOMAIN Effective =>
              /\ "entity_id" \in assigned
              /\ Name("entity_id") \in DOMAIN attributes
              /\ attributes[Name("entity_id")] = ReqIdp
        /\ assigned \cap MetadataFacts = {}
        /\ \A k \in DOMAIN attributes :
              ("entity_id" \in DOMAIN Effective /\ k = Name("entity_id"))
                  \/ (k \in DOMAIN request.attributes /\ attributes[k] = request.attributes[k])
        /\ forwarded
        /\ raised = ""

C7_Witness ==
    /\ Enriching
    /\ ~LookupOk
    /\ "entity_id" \in DOMAIN Effective
    /\ "display_name" \in DOMAIN Effective
    /\ attributes[Name("entity_id")] = ReqIdp
    /\ Name("display_name") \notin DOMAIN attributes
    /\ forwarded

\* the extension elements of the first SSO descriptor are there
HasExtensions(md) ==
    /\ "idpsso_descriptor" \in DOMAIN md
    /\ Len(md["idpsso_descriptor"]) > 0
    /\ "extensions" \in DOMAIN md["idpsso_descriptor"][1]
    /\ "extension_elements" \in DOMAIN md["idpsso_descriptor"][1]["extensions"]

Extensions(md) == md["idpsso_descriptor"][1]["extensions"]["extension_elements"]

\* element i is the first UI-extension element, after elements of other classes
FirstUIInfo(md, i) ==
    /\ "__class__" \in DOMAIN Extensions(md)[i]
    /\ Extensions(md)[i]["__class__"] = UIInfoClass
    /\ \A j \in 1..(i - 1) :
           /\ "__class__" \in DOMAIN Extensions(md)[j]
           /\ Extensions(md)[j]["__class__"] # UIInfoClass

\* the section of the metadata record that holds the fact is there
WellFormed(md, fact) ==
    IF fact = "display_name"
    THEN /\ HasExtensions(md)
         /\ \E i \in 1..Len(Extensions(md)) :
                FirstUIInfo(md, i) /\ "display_name" \in DOMAIN Extensions(md)[i]
    ELSE /\ "organization" \in DOMAIN md
         /\ fact \in DOMAIN md["organization"]

\* the candidate list of a fact whose section is well-formed
Candidates(md, fact) ==
    IF fact = "display_name"
    THEN Extensions(md)[CHOOSE i \in 1..Len(Extensions(md)) : FirstUIInfo(md, i)]["display_name"]
    ELSE md["organization"][fact]

HasText(elems) == \E i \in 1..Len(elems) : "text" \in DOMAIN elems[i]

Configured == MetadataFacts \cap DOMAIN Effective

\* C8: a fact taken from the metadata is assigned exactly when its own section of
\* the record is well-formed and has a candidate with text, whatever the state of
\* the sections of the other facts.
C8_FactIsolation ==
    (Enriching /\ LookupOk) =>
        \A f \in Configured :
            /\ f \in assigned <=>
                  (WellFormed(Metadata, f) /\ HasText(Candidates(Metadata, f)))
            /\ f \in assigned =>
                  /\ Name(f) \in DOMAIN attributes
                  /\ \E i \in 1..Len(Candidates(Metadata, f)) :
                         /\ "text" \in DOMAIN Candidates(Metadata, f)[i]
                         /\ attributes[Name(f)] = Candidates(Metadata, f)[i]["text"]

\* the display name is not to be had, the two organization facts are assigned
C8_Witness ==
    /\ Enriching
    /\ LookupOk
    /\ Configured = MetadataFacts
    /\ ~WellFormed(Metadata, "display_name")
    /\ assigned \cap MetadataFacts = {"organization_name", "organization_display_name"}
    /\ Name("organization_name") \in DOMAIN attributes
    /\ Name("display_name") \notin DOMAIN attributes

\* C9: every process call ends by forwarding the assertion and lets no exception
\* escape; without an issuer the attribute bag is forwarded as it was.
C9_AlwaysForwarded ==
    pc = "returned" =>
        /\ forwarded
        /\ raised = ""
        /\ ~HasIssuer => (attributes = request.attributes /\ assigned = {} /\ ~consulted)

\* a configured display name and a record with an empty list of SSO descriptors
C9_Witness ==
    /\ Enriching
    /\ LookupOk
    /\ "display_name" \in Configured
    /\ "idpsso_descriptor" \in DOMAIN Metadata
    /\ Metadata["idpsso_descriptor"] = <<>>
    /\ forwarded

\* the attribute names the effective configuration of the request configures
ConfiguredNames ==
    IF HasIssuer THEN {Name(f) : f \in FactKeys \cap DOMAIN Effective} ELSE {}

Selected(fact) == _first_lang_element_text(Candidates(Metadata, fact), Lang(Effective, fact))

\* C10: process removes no key of the attribute bag, adds none but configured
\* names, and changes the value of none but configured names; a configured fact
\* whose selected text is empty is not assigned and the bag keeps what it had
\* under the fact's name, and a selected text that is not empty is the value
\* under that name.
C10_Frame ==
    pc = "returned" =>
        /\ DOMAIN request.attributes \subseteq DOMAIN attributes
        /\ DOMAIN attributes \subseteq DOMAIN request.attributes \cup ConfiguredNames
        /\ \A k \in DOMAIN request.attributes \ ConfiguredNames :
               attributes[k] = request.attributes[k]
        /\ (Enriching /\ LookupOk) =>
               \A f \in Configured :
                   WellFormed(Metadata, f) =>
                       IF Selected(f) = ""
                       THEN /\ f \notin assigned
                            /\ Name(f) \in DOMAIN attributes
                                   <=> Name(f) \in DOMAIN request.attributes
                            /\ Name(f) \in DOMAIN attributes
                                   => attributes[Name(f)] = request.attributes[Name(f)]
                       ELSE /\ Name(f) \in DOMAIN attributes
                            /\ attributes[Name(f)] = Selected(f)

\* an empty selection leaves the old value, next to a fact that is assigned
C10_Witness ==
    /\ Enriching
    /\ LookupOk
    /\ "display_name" \in Configured
    /\ WellFormed(Metadata, "display_name")
    /\ Selected("display_name") = ""
    /\ Name("display_name") \in DOMAIN request.attributes
    /\ attributes[Name("display_name")] = "old"
    /\ "organization_name" \in assigned
    /\ attributes[Name("organization_name")] # "old"
    /\ attributes["mail"] = request.attributes["mail"]

=============================================================================
